---- MODULE Spec2Model ----
(***************************************************************************)
(* Real-time connection / presence / broadcast subsystem of the chat       *)
(* server (routes.ts: clients, userChannels, wsUserMap, broadcastToChannel,*)
(* broadcastToAll, the WebSocket "connection" / "message" / "close"        *)
(* handlers and POST /api/channels).                                       *)
(*                                                                         *)
(* Every action is one synchronous run of JavaScript between two awaits:   *)
(* a handler that awaits a storage call is suspended as a task of its      *)
(* connection and resumed by a later action, so handlers of the same and   *)
(* of different connections interleave exactly at the awaits.              *)
(*                                                                         *)
(* The browser side is the useWebSocket hook (its state, its sockets and   *)
(* reconnect timers), Home's newMessage effect and MessageInput's typing   *)
(* timer. A connection is either a raw peer that may write any frame, or   *)
(* hooked: its peer is the hook, which handles every frame sent to it.     *)
(***************************************************************************)
EXTENDS Integers, Sequences, FiniteSets, TLC

\* ------------------------------------------------------------------ bounds
MaxFrames == 3      \* inbound frames handled in one run
MaxInflight == 1    \* handlers suspended at an await at the same time
MaxSockets == 3     \* sockets one hook creates in one run

\* ------------------------------------------------------------- universes
Conns == {"c1", "c2", "c3"}
Users == {"A", "B", "C"}       \* rows of the users table
Ghost == "G"                   \* an id with no row in the users table
NULL == "null"
ClaimIds == Users \cup {Ghost} \* payload.userId of an auth frame
Channels == {"ch1", "ch2"}     \* channels that exist from the start
NewChannel == "ch3"            \* the channel POST /api/channels creates
AllChannels == Channels \cup {NewChannel}
InitMembers == {<<"ch1", "A">>, <<"ch1", "B">>, <<"ch2", "A">>}
InitMessages == {[id |-> 1, channelId |-> "ch1", senderId |-> "A"],
                 [id |-> 2, channelId |-> "ch2", senderId |-> "A"]}
NewMsgIds == {3}               \* ids storage.createMessage hands out
MsgIds == {r.id : r \in InitMessages} \cup NewMsgIds
\* the session cookie each connection arrives with: c1 carries a session of A,
\* c2 and c3 carry none and take the fallback path
Session == [c \in Conns |-> IF c = "c1" THEN "A" ELSE NULL]

\* hook state newMessage when it is null
NoMessage == [id |-> 0, channelId |-> NULL]

VARIABLES
  readyState,          \* ws.readyState of each connection ("NONE" before accept)
  listening,           \* the "message"/"close" handlers are registered (line 547/692)
  authenticatedUserId, \* const authenticatedUserId of the connection closure
  userId,              \* let userId of the connection closure
  closeCode,           \* code passed to ws.close by the server, 0 if none
  tasks,               \* suspended "message" handlers of each connection
  clients,             \* Map<string, WebSocket>, as a set of <<key, value>>
  userChannels,        \* Map<string, Set<string>>, as a set of <<key, value>>
  wsUserMap,           \* Map<WebSocket, string>, as a set of <<key, value>>
  members,             \* storage: channel_members rows <<channelId, userId>>
  messages,            \* storage: messages rows
  reactions,           \* storage: reactions rows <<messageId, userId>>
  nframes,             \* inbound frames handled so far
  sent,                \* frames written to sockets by the last step, in order
  last,                \* what the last step was
  \* ---- the browser side (useWebSocket.ts, Home, MessageInput)
  hooked,              \* connections whose peer is the useWebSocket hook
  isConnected,         \* hook state isConnected, per connection
  outbox,              \* frames the hook wrote to its socket, not yet at the server
  onlineUsers,         \* hook state onlineUsers, per connection
  typingUsers,         \* hook state typingUsers: channel -> list of user ids
  newMessage,          \* hook state newMessage, per connection
  queryData,           \* Home: cached message list of each channel
  activeChannelId,     \* Home state activeChannelId
  isTyping,            \* MessageInput state isTyping
  typingTimeout,       \* MessageInput typingTimeoutRef: NULL, or the channel of
                       \* the onTypingStop closure the pending timer will call
  inputMounted,        \* MessageInput is mounted
  owed,                \* channels with a typing_start sent and no typing_stop since
  hookUserId,          \* userId argument of the mounted hook, NULL if unmounted
  sockets,             \* sockets the hook created: [user, state, first, effect]
  timers               \* reconnect timers pending: indices of the closed sockets

serverVars == <<readyState, listening, authenticatedUserId, userId, closeCode, tasks,
                clients, userChannels, wsUserMap, members, messages, reactions,
                nframes>>
hookVars == <<hooked, isConnected, outbox, onlineUsers, typingUsers, newMessage>>
homeVars == <<queryData, activeChannelId, isTyping, typingTimeout, inputMounted, owed>>
lifeVars == <<hookUserId, sockets, timers>>
vars == <<serverVars, sent, last, hookVars, homeVars, lifeVars>>

\* ------------------------------------------------------- Map operations
MapHas(m, k) == \E p \in m : p[1] = k
MapGet(m, k) == IF MapHas(m, k) THEN (CHOOSE p \in m : p[1] = k)[2] ELSE NULL
MapSetDup(m, k, v) == m \cup {<<k, v>>}
MapSet(m, k, v) == {p \in m : p[1] # k} \cup {<<k, v>>}
MapDelete(m, k) == {p \in m : p[1] # k}
MapKeys(m) == {p[1] : p \in m}

RECURSIVE SetToSeq(_)
SetToSeq(S) == IF S = {} THEN <<>>
               ELSE LET x == CHOOSE y \in S : TRUE
                    IN <<x>> \o SetToSeq(S \ {x})

RemoveAt(s, i) == [j \in 1..(Len(s) - 1) |-> IF j < i THEN s[j] ELSE s[j + 1]]

\* ------------------------------------------------------------- frames
Event(type, user, ch, msg, users) ==
  [type |-> type, user |-> user, ch |-> ch, msg |-> msg, users |-> users,
   action |-> NULL]
\* lines 665-668 / 680-683: {type: "message_reaction", payload: {..., action}}
ReactionEvent(action, user, ch, msg) ==
  [Event("message_reaction", user, ch, msg, {}) EXCEPT !.action = action]
Frame(to, via, ev) ==
  [to |-> to, via |-> via, type |-> ev.type, user |-> ev.user, ch |-> ev.ch,
   msg |-> ev.msg, users |-> ev.users, action |-> ev.action]
NoStep == [op |-> "init", c |-> NULL, u |-> NULL, ch |-> NULL, m |-> 0]
Step(op, c, u, ch, m) == [op |-> op, c |-> c, u |-> u, ch |-> ch, m |-> m]
\* a frame whose case body is skipped by its guard (userId && ...)
Ignored(c) == Step("ignored", c, NULL, NULL, 0)

BroadcastToChannelUnscoped(cl, uc, rs, channelId, ev, excludeUserId) ==
  LET targets == {u \in MapKeys(cl) : u # excludeUserId /\ rs[MapGet(cl, u)] = "OPEN"}
  IN SetToSeq({Frame(MapGet(cl, u), u, ev) : u \in targets})
\* broadcastToChannel(channelId, message, excludeUserId?)
BroadcastToChannel(cl, uc, rs, channelId, ev, excludeUserId) ==
  LET channelUsers == {p[1] : p \in {q \in uc : channelId \in q[2]}}
      targets == {u \in channelUsers :
                    /\ u # excludeUserId
                    /\ MapHas(cl, u)
                    /\ rs[MapGet(cl, u)] = "OPEN"}
  IN SetToSeq({Frame(MapGet(cl, u), u, ev) : u \in targets})

\* broadcastToAll(message, excludeUserId?)
BroadcastToAll(cl, rs, ev, excludeUserId) ==
  LET targets == {p \in cl : p[1] # excludeUserId /\ rs[p[2]] = "OPEN"}
  IN SetToSeq({Frame(p[2], p[1], ev) : p \in targets})

\* ------------------------------------------------------------- storage
GetUserAny(id) == TRUE
\* storage.getUser(id): the row, or undefined
GetUser(id) == id \in Users
\* storage.isChannelMember(channelId, userId)
IsChannelMember(mem, channelId, u) == <<channelId, u>> \in mem
\* storage.getUserChannels(userId), reduced to the ids the caller keeps
GetUserChannels(mem, u) == {p[1] : p \in {q \in mem : q[2] = u}}
\* storage.getMessage(id)
GetMessage(msgs, id) == \E r \in msgs : r.id = id
MessageChannel(msgs, id) == (CHOOSE r \in msgs : r.id = id).channelId
MessageSender(msgs, id) == (CHOOSE r \in msgs : r.id = id).senderId

\* ------------------------------------------------------------- Init
\* the browser side before anything is mounted or received
HookInit ==
  /\ isConnected = [c \in Conns |-> FALSE]
  /\ outbox = [c \in Conns |-> <<>>]
  /\ onlineUsers = [c \in Conns |-> {}]
  /\ typingUsers = [c \in Conns |-> [ch \in AllChannels |-> <<>>]]
  /\ newMessage = [c \in Conns |-> NoMessage]
HomeInit ==
  /\ queryData = [ch \in AllChannels |-> <<>>]
  /\ activeChannelId = NULL
  /\ isTyping = FALSE
  /\ typingTimeout = NULL
  /\ inputMounted = FALSE
  /\ owed = {}
LifeInit ==
  /\ hookUserId = NULL
  /\ sockets = <<>>
  /\ timers = {}
BrowserInit == HookInit /\ HomeInit /\ LifeInit

ServerInit ==
  /\ readyState = [c \in Conns |-> "NONE"]
  /\ listening = [c \in Conns |-> FALSE]
  /\ authenticatedUserId = [c \in Conns |-> NULL]
  /\ userId = [c \in Conns |-> NULL]
  /\ closeCode = [c \in Conns |-> 0]
  /\ tasks = [c \in Conns |-> <<>>]
  /\ clients = {}
  /\ userChannels = {}
  /\ wsUserMap = {}
  /\ members = InitMembers
  /\ messages = InitMessages
  /\ reactions = {}
  /\ nframes = 0
  /\ sent = <<>>
  /\ last = NoStep

\* every peer is a raw socket: it may write any frame at any time
Init == ServerInit /\ hooked = {} /\ BrowserInit

\* ------------------------------------------------------------- tasks
\* a suspended "message" handler: op = frame type, pc = the await it sits at,
\* u / ch / m = the values it captured, seen = what storage held when it called
Task(op, pc, u, ch, m, seen) ==
  [op |-> op, pc |-> pc, u |-> u, ch |-> ch, m |-> m, seen |-> seen]

CanReceive(c) == listening[c] /\ readyState[c] = "OPEN" /\ nframes < MaxFrames
RECURSIVE Inflight(_)
Inflight(Cs) == IF Cs = {} THEN 0
                ELSE LET c == CHOOSE x \in Cs : TRUE
                     IN Len(tasks[c]) + Inflight(Cs \ {c})
CanSuspend(c) == Inflight(Conns) < MaxInflight
AtAwait(c, i, op, pc) ==
  /\ i \in 1..Len(tasks[c])
  /\ tasks[c][i].op = op
  /\ tasks[c][i].pc = pc

\* ws.close(code, reason): starts the closing handshake of an open socket
WsClose(c, code) ==
  /\ readyState' = [readyState EXCEPT ![c] = IF @ = "OPEN" THEN "CLOSING" ELSE @]
  /\ closeCode' = [closeCode EXCEPT ![c] = IF readyState[c] = "OPEN" THEN code ELSE @]

\* ------------------------------------------------------------- the hook
\* the state socket.onmessage reads and writes
HookState(c) ==
  [onlineUsers |-> onlineUsers[c], typingUsers |-> typingUsers[c],
   newMessage |-> newMessage[c]]
InList(list, u) == \E i \in 1..Len(list) : list[i] = u
Without(list, u) == SelectSeq(list, LAMBDA x : x # u)

\* useWebSocket.ts lines 53-66: case "typing_start"
TypingStartAlways(list, u) == Append(list, u)
TypingStartOn(list, u) == IF InList(list, u) THEN list ELSE Append(list, u)

\* useWebSocket.ts lines 35-85: socket.onmessage applied to one frame
OnMessage(h, f) ==
  CASE f.type = "online_users" -> [h EXCEPT !.onlineUsers = f.users]
    [] f.type = "user_online" -> [h EXCEPT !.onlineUsers = @ \cup {f.user}]
    [] f.type = "user_offline" -> [h EXCEPT !.onlineUsers = @ \ {f.user}]
    [] f.type = "typing_start" ->
         [h EXCEPT !.typingUsers[f.ch] = TypingStartOn(@, f.user)]
    [] f.type = "typing_stop" ->
         [h EXCEPT !.typingUsers[f.ch] = Without(@, f.user)]
    [] f.type = "new_message" ->
         [h EXCEPT !.newMessage = [id |-> f.msg, channelId |-> f.ch]]
    [] OTHER -> h

RECURSIVE ApplyAll(_, _)
ApplyAll(h, frames) ==
  IF frames = <<>> THEN h ELSE ApplyAll(OnMessage(h, Head(frames)), Tail(frames))
FramesTo(c, frames) == SelectSeq(frames, LAMBDA f : f.to = c)

\* what a server step means for the peers: the frames it wrote reach each
\* hooked connection in order and its onmessage handles them; the frame the
\* step consumed leaves the outbox of the hook that wrote it; the state of a
\* raw peer is not tracked
Delivered ==
  /\ IF hooked = {}
     THEN UNCHANGED <<onlineUsers, typingUsers, newMessage, outbox>>
     ELSE /\ onlineUsers' = [c \in Conns |-> IF c \in hooked
               THEN ApplyAll(HookState(c), FramesTo(c, sent')).onlineUsers
               ELSE onlineUsers[c]]
          /\ typingUsers' = [c \in Conns |-> IF c \in hooked
               THEN ApplyAll(HookState(c), FramesTo(c, sent')).typingUsers
               ELSE typingUsers[c]]
          /\ newMessage' = [c \in Conns |-> IF c \in hooked
               THEN ApplyAll(HookState(c), FramesTo(c, sent')).newMessage
               ELSE newMessage[c]]
          /\ outbox' = [c \in Conns |->
               IF nframes' # nframes /\ last'.c = c /\ outbox[c] # <<>>
               THEN Tail(outbox[c]) ELSE outbox[c]]
  /\ UNCHANGED <<hooked, isConnected, homeVars, lifeVars>>

\* ------------------------------------------------------------- connection
\* wss.on("connection"): the socket is open, the session lookup is awaited
Connect(c) ==
  /\ readyState[c] = "NONE"
  /\ readyState' = [readyState EXCEPT ![c] = "OPEN"]
  /\ sent' = <<>>
  /\ last' = Step("connect", c, NULL, NULL, 0)
  /\ UNCHANGED <<listening, authenticatedUserId, userId, closeCode, tasks, clients,
                 userChannels, wsUserMap, members, messages, reactions, nframes>>
  /\ Delivered

\* authenticateWebSocket() resolved: the handlers are registered
SessionResolved(c) ==
  /\ readyState[c] # "NONE"
  /\ ~listening[c]
  /\ listening' = [listening EXCEPT ![c] = TRUE]
  /\ authenticatedUserId' = [authenticatedUserId EXCEPT ![c] = Session[c]]
  /\ sent' = <<>>
  /\ last' = Step("session", c, NULL, NULL, 0)
  /\ UNCHANGED <<readyState, userId, closeCode, tasks, clients, userChannels,
                 wsUserMap, members, messages, reactions, nframes>>
  /\ Delivered

\* lines 576-581: register the connection, then await getUserChannels
Bind(c, u) ==
  /\ userId' = [userId EXCEPT ![c] = u]
  /\ clients' = MapSet(clients, u, c)
  /\ wsUserMap' = MapSet(wsUserMap, c, u)

\* case "auth", up to the first await
AuthFrame(c, clientUserId) ==
  /\ CanReceive(c)
  /\ nframes' = nframes + 1
  /\ sent' = <<>>
  /\ IF authenticatedUserId[c] # NULL
     THEN IF clientUserId # authenticatedUserId[c]
          THEN /\ WsClose(c, 4001)
               /\ last' = Step("auth_mismatch", c, NULL, NULL, 0)
               /\ UNCHANGED <<userId, clients, wsUserMap, tasks>>
          ELSE /\ CanSuspend(c)
               /\ Bind(c, authenticatedUserId[c])
               /\ tasks' = [tasks EXCEPT ![c] = Append(@,
                    Task("auth", "getUserChannels", authenticatedUserId[c], NULL, 0,
                         GetUserChannels(members, authenticatedUserId[c])))]
               /\ last' = Step("bind", c, authenticatedUserId[c], NULL, 0)
               /\ UNCHANGED <<readyState, closeCode>>
     ELSE /\ CanSuspend(c)
          /\ tasks' = [tasks EXCEPT ![c] = Append(@,
               Task("auth", "getUser", clientUserId, NULL, 0, {}))]
          /\ last' = Step("auth_lookup", c, clientUserId, NULL, 0)
          /\ UNCHANGED <<readyState, closeCode, userId, clients, wsUserMap>>
  /\ UNCHANGED <<listening, authenticatedUserId, userChannels, members, messages,
                 reactions>>
  /\ Delivered

\* case "auth", fallback path: storage.getUser(clientUserId) resolved
AuthUserResolved(c, i) ==
  /\ AtAwait(c, i, "auth", "getUser")
  /\ sent' = <<>>
  /\ LET t == tasks[c][i] IN
     IF ~GetUser(t.u)
     THEN /\ WsClose(c, 4002)
          /\ tasks' = [tasks EXCEPT ![c] = RemoveAt(@, i)]
          /\ last' = Step("auth_notfound", c, t.u, NULL, 0)
          /\ UNCHANGED <<userId, clients, wsUserMap>>
     ELSE /\ Bind(c, t.u)
          /\ tasks' = [tasks EXCEPT ![c][i] =
               Task("auth", "getUserChannels", t.u, NULL, 0, GetUserChannels(members, t.u))]
          /\ last' = Step("bind", c, t.u, NULL, 0)
          /\ UNCHANGED <<readyState, closeCode>>
  /\ UNCHANGED <<listening, authenticatedUserId, userChannels, members, messages,
                 reactions, nframes>>
  /\ Delivered

\* case "auth", lines 582-598: storage.getUserChannels resolved. The rows were
\* read at some moment of the await; userId is read again from the closure.
\* ws.send on a socket that is no longer open either throws (caught at line
\* 687, the broadcast is skipped) or is dropped, depending on the ws release.
AuthChannelsResolved(c, i) ==
  /\ AtAwait(c, i, "auth", "getUserChannels")
  /\ \E channelIds \in {tasks[c][i].seen, GetUserChannels(members, tasks[c][i].u)},
        throws \in BOOLEAN :
       /\ readyState[c] = "OPEN" => ~throws
       /\ userChannels' = MapSet(userChannels, userId[c], channelIds)
       /\ sent' = (IF readyState[c] = "OPEN"
                   THEN <<Frame(c, userId[c],
                                Event("online_users", NULL, NULL, 0, MapKeys(clients)))>>
                   ELSE <<>>)
                  \o (IF throws THEN <<>>
                      ELSE BroadcastToAll(clients, readyState,
                             Event("user_online", userId[c], NULL, 0, {}), userId[c]))
       /\ last' = Step(IF throws THEN "auth_send_threw" ELSE "auth_done",
                       c, userId[c], NULL, 0)
  /\ tasks' = [tasks EXCEPT ![c] = RemoveAt(@, i)]
  /\ UNCHANGED <<readyState, listening, authenticatedUserId, userId, closeCode,
                 clients, wsUserMap, members, messages, reactions, nframes>>
  /\ Delivered

\* line 693: wsUserMap.get(ws) || userId
ClosingUserIdOfSession(c) ==
  IF MapGet(wsUserMap, c) # NULL THEN MapGet(wsUserMap, c)
  ELSE IF userId[c] # NULL THEN userId[c] ELSE authenticatedUserId[c]
ClosingUserId(c) ==
  IF MapGet(wsUserMap, c) # NULL THEN MapGet(wsUserMap, c) ELSE userId[c]

\* the transport closed: ws.on("close") runs if it was registered
Close(c) ==
  /\ readyState[c] \in {"OPEN", "CLOSING"}
  /\ readyState' = [readyState EXCEPT ![c] = "CLOSED"]
  /\ LET closingUserId == ClosingUserId(c)
     IN IF listening[c] /\ closingUserId # NULL
        THEN /\ clients' = MapDelete(clients, closingUserId)
             /\ userChannels' = MapDelete(userChannels, closingUserId)
             /\ wsUserMap' = MapDelete(wsUserMap, c)
             /\ sent' = BroadcastToAll(clients', readyState',
                          Event("user_offline", closingUserId, NULL, 0, {}), NULL)
             /\ last' = Step("close_bound", c, closingUserId, NULL, 0)
        ELSE /\ sent' = <<>>
             /\ last' = Step("close_unbound", c, NULL, NULL, 0)
             /\ UNCHANGED <<clients, userChannels, wsUserMap>>
  /\ UNCHANGED <<listening, authenticatedUserId, userId, closeCode, tasks, members,
                 messages, reactions, nframes>>
  /\ Delivered

\* ------------------------------------------------------------- typing
\* case "typing_start", up to await storage.getUser(userId)
TypingStartFrame(c, channelId) ==
  /\ CanReceive(c)
  /\ nframes' = nframes + 1
  /\ sent' = <<>>
  /\ IF userId[c] # NULL
     THEN /\ CanSuspend(c)
          /\ tasks' = [tasks EXCEPT ![c] = Append(@,
               Task("typing_start", "getUser", userId[c], channelId, 0, {}))]
          /\ last' = Step("typing_start_frame", c, userId[c], channelId, 0)
     ELSE /\ last' = Ignored(c)
          /\ UNCHANGED tasks
  /\ UNCHANGED <<readyState, listening, authenticatedUserId, userId, closeCode,
                 clients, userChannels, wsUserMap, members, messages, reactions>>
  /\ Delivered

\* case "typing_start", lines 605-616: userId is read again from the closure
TypingStartResolved(c, i) ==
  /\ AtAwait(c, i, "typing_start", "getUser")
  /\ sent' = BroadcastToChannel(clients, userChannels, readyState, tasks[c][i].ch,
               Event("typing_start", userId[c], tasks[c][i].ch, 0, {}), userId[c])
  /\ last' = Step("typing_start", c, userId[c], tasks[c][i].ch, 0)
  /\ tasks' = [tasks EXCEPT ![c] = RemoveAt(@, i)]
  /\ UNCHANGED <<readyState, listening, authenticatedUserId, userId, closeCode,
                 clients, userChannels, wsUserMap, members, messages, reactions,
                 nframes>>
  /\ Delivered

\* case "typing_stop": no await
TypingStopFrameUnguarded(c, channelId) ==
  /\ CanReceive(c)
  /\ nframes' = nframes + 1
  /\ sent' = BroadcastToChannel(clients, userChannels, readyState, channelId,
               Event("typing_stop", userId[c], channelId, 0, {}), userId[c])
  /\ last' = Step("typing_stop", c, userId[c], channelId, 0)
  /\ UNCHANGED <<readyState, listening, authenticatedUserId, userId, closeCode, tasks,
                 clients, userChannels, wsUserMap, members, messages, reactions>>
  /\ Delivered

TypingStopFrame(c, channelId) ==
  /\ CanReceive(c)
  /\ nframes' = nframes + 1
  /\ sent' = (IF userId[c] # NULL
              THEN BroadcastToChannel(clients, userChannels, readyState, channelId,
                     Event("typing_stop", userId[c], channelId, 0, {}), userId[c])
              ELSE <<>>)
  /\ last' = (IF userId[c] # NULL THEN Step("typing_stop", c, userId[c], channelId, 0)
              ELSE Ignored(c))
  /\ UNCHANGED <<readyState, listening, authenticatedUserId, userId, closeCode, tasks,
                 clients, userChannels, wsUserMap, members, messages, reactions>>
  /\ Delivered

\* ------------------------------------------------------------- messages
FreshIds == NewMsgIds \ {r.id : r \in messages}

\* case "send_message", up to await storage.isChannelMember(channelId, userId)
SendMessageFrame(c, channelId) ==
  /\ CanReceive(c)
  /\ nframes' = nframes + 1
  /\ sent' = <<>>
  /\ IF userId[c] # NULL
     THEN /\ CanSuspend(c)
          /\ tasks' = [tasks EXCEPT ![c] = Append(@,
               Task("send_message", "isChannelMember", userId[c], channelId, 0,
                    IF IsChannelMember(members, channelId, userId[c])
                    THEN {channelId} ELSE {}))]
          /\ last' = Step("send_message_frame", c, userId[c], channelId, 0)
     ELSE /\ last' = Ignored(c)
          /\ UNCHANGED tasks
  /\ UNCHANGED <<readyState, listening, authenticatedUserId, userId, closeCode,
                 clients, userChannels, wsUserMap, members, messages, reactions>>
  /\ Delivered

\* lines 640-641: what the awaited storage.isChannelMember may have answered
IsMemberSkipped(t) == {TRUE}
IsMember(t) == {t.ch \in t.seen, IsChannelMember(members, t.ch, t.u)}

\* case "send_message", lines 641-648: the membership row was read at some
\* moment of the await; a member goes on to storage.createMessage, whose
\* senderId is userId read again from the closure. The task keeps in u the
\* user the membership check was made for.
SendMessageAuthorized(c, i) ==
  /\ AtAwait(c, i, "send_message", "isChannelMember")
  /\ sent' = <<>>
  /\ LET t == tasks[c][i] IN
     \E isMember \in IsMember(t) :
       IF ~isMember
       THEN /\ tasks' = [tasks EXCEPT ![c] = RemoveAt(@, i)]
            /\ last' = Step("send_message_denied", c, t.u, t.ch, 0)
            /\ UNCHANGED messages
       ELSE /\ FreshIds # {}
            /\ LET id == CHOOSE x \in FreshIds : TRUE IN
               /\ messages' = messages \cup
                    {[id |-> id, channelId |-> t.ch, senderId |-> userId[c]]}
               /\ tasks' = [tasks EXCEPT ![c][i] =
                    Task("send_message", "createMessage", t.u, t.ch, id, {})]
               /\ last' = Step("create_message", c, t.u, t.ch, id)
  /\ UNCHANGED <<readyState, listening, authenticatedUserId, userId, closeCode,
                 clients, userChannels, wsUserMap, members, reactions, nframes>>
  /\ Delivered

\* case "send_message", lines 650-653: storage.createMessage resolved
SendMessageCreated(c, i) ==
  /\ AtAwait(c, i, "send_message", "createMessage")
  /\ LET t == tasks[c][i] IN
     /\ sent' = BroadcastToChannel(clients, userChannels, readyState, t.ch,
                  Event("new_message", MessageSender(messages, t.m), t.ch, t.m, {}),
                  NULL)
     /\ last' = Step("new_message", c, t.u, t.ch, t.m)
  /\ tasks' = [tasks EXCEPT ![c] = RemoveAt(@, i)]
  /\ UNCHANGED <<readyState, listening, authenticatedUserId, userId, closeCode,
                 clients, userChannels, wsUserMap, members, messages, reactions,
                 nframes>>
  /\ Delivered

\* ------------------------------------------------------------- reactions
\* case "add_reaction" / "remove_reaction", up to await storage.getMessage
ReactionFrame(c, action, messageId) ==
  /\ CanReceive(c)
  /\ nframes' = nframes + 1
  /\ sent' = <<>>
  /\ IF userId[c] # NULL
     THEN /\ CanSuspend(c)
          /\ tasks' = [tasks EXCEPT ![c] = Append(@,
               Task(action \o "_reaction", "getMessage", userId[c], NULL, messageId, {}))]
          /\ last' = Step(action \o "_reaction_frame", c, userId[c], NULL, messageId)
     ELSE /\ last' = Ignored(c)
          /\ UNCHANGED tasks
  /\ UNCHANGED <<readyState, listening, authenticatedUserId, userId, closeCode,
                 clients, userChannels, wsUserMap, members, messages, reactions>>
  /\ Delivered

\* lines 661-663 / 676-678: no such message ends the handler; otherwise the
\* reaction is written for userId as the closure holds it now
ReactionMessageResolved(c, i, action) ==
  /\ AtAwait(c, i, action \o "_reaction", "getMessage")
  /\ sent' = <<>>
  /\ LET t == tasks[c][i] IN
     IF ~GetMessage(messages, t.m)
     THEN /\ tasks' = [tasks EXCEPT ![c] = RemoveAt(@, i)]
          /\ last' = Step(action \o "_reaction_nomsg", c, t.u, NULL, t.m)
          /\ UNCHANGED reactions
     ELSE /\ reactions' = (IF action = "add"
                           THEN reactions \cup {<<t.m, userId[c]>>}
                           ELSE reactions \ {<<t.m, userId[c]>>})
          /\ tasks' = [tasks EXCEPT ![c][i] =
               Task(action \o "_reaction", "store", userId[c],
                    MessageChannel(messages, t.m), t.m, {})]
          /\ last' = Step(action \o "_reaction_store", c, userId[c],
                          MessageChannel(messages, t.m), t.m)
  /\ UNCHANGED <<readyState, listening, authenticatedUserId, userId, closeCode,
                 clients, userChannels, wsUserMap, members, messages, nframes>>
  /\ Delivered

\* lines 665-668 / 680-683: storage.addReaction / removeReaction resolved
ReactionStored(c, i, action) ==
  /\ AtAwait(c, i, action \o "_reaction", "store")
  /\ LET t == tasks[c][i] IN
     /\ sent' = BroadcastToChannel(clients, userChannels, readyState, t.ch,
                  ReactionEvent(action, userId[c], t.ch, t.m), NULL)
     /\ last' = Step("message_reaction_" \o action, c, userId[c], t.ch, t.m)
  /\ tasks' = [tasks EXCEPT ![c] = RemoveAt(@, i)]
  /\ UNCHANGED <<readyState, listening, authenticatedUserId, userId, closeCode,
                 clients, userChannels, wsUserMap, members, messages, reactions,
                 nframes>>
  /\ Delivered

\* ------------------------------------------------------------- HTTP
\* POST /api/channels, lines 250-285: the channel and its member rows are
\* written, then the routing sets of the creator and of memberIds gain the id
CreateChannelStorageOnly(creator, memberIds) ==
  /\ ~\E p \in members : p[1] = NewChannel
  /\ members' = members \cup {<<NewChannel, u>> : u \in {creator} \cup memberIds}
  /\ sent' = <<>>
  /\ last' = Step("create_channel", NULL, creator, NewChannel, 0)
  /\ UNCHANGED <<readyState, listening, authenticatedUserId, userId, closeCode, tasks,
                 clients, userChannels, wsUserMap, messages, reactions, nframes>>
  /\ Delivered
CreateChannel(creator, memberIds) ==
  /\ ~\E p \in members : p[1] = NewChannel
  /\ members' = members \cup {<<NewChannel, u>> : u \in {creator} \cup memberIds}
  /\ userChannels' =
       {p \in userChannels : p[1] \notin {creator} \cup memberIds}
       \cup {<<u, (IF MapHas(userChannels, u) THEN MapGet(userChannels, u) ELSE {})
                    \cup {NewChannel}>> : u \in {creator} \cup memberIds}
  /\ sent' = <<>>
  /\ last' = Step("create_channel", NULL, creator, NewChannel, 0)
  /\ UNCHANGED <<readyState, listening, authenticatedUserId, userId, closeCode, tasks,
                 clients, wsUserMap, messages, reactions, nframes>>
  /\ Delivered

\* ------------------------------------------------------------- failures
\* lines 687-689: the catch block logs the error; it writes to no socket
CatchRepliesError(c) ==
  <<Frame(c, NULL, Event("error", NULL, NULL, 0, {}))>>
Catch(c) == <<>>

\* line 549: JSON.parse throws, or the frame has no payload object and the
\* case reads message.payload.<field>: the run ends in the catch block
MalformedFrame(c) ==
  /\ CanReceive(c)
  /\ nframes' = nframes + 1
  /\ sent' = Catch(c)
  /\ last' = Step("malformed", c, NULL, NULL, 0)
  /\ UNCHANGED <<readyState, listening, authenticatedUserId, userId, closeCode, tasks,
                 clients, userChannels, wsUserMap, members, messages, reactions>>
  /\ Delivered

\* line 551: message.type matches no case of the switch
UnknownFrame(c) ==
  /\ CanReceive(c)
  /\ nframes' = nframes + 1
  /\ sent' = <<>>
  /\ last' = Step("unknown_type", c, NULL, NULL, 0)
  /\ UNCHANGED <<readyState, listening, authenticatedUserId, userId, closeCode, tasks,
                 clients, userChannels, wsUserMap, members, messages, reactions>>
  /\ Delivered

\* the storage call a handler awaits rejects: the rest of the case is skipped
\* and the run ends in the catch block. What the handler did before the await
\* stays done (clients.set before getUserChannels; a row that createMessage
\* inserted before its own getUser threw).
StorageRejected(c, i) ==
  /\ i \in 1..Len(tasks[c])
  /\ sent' = Catch(c)
  /\ last' = Step(tasks[c][i].op \o "_" \o tasks[c][i].pc \o "_threw", c,
                  tasks[c][i].u, tasks[c][i].ch, tasks[c][i].m)
  /\ tasks' = [tasks EXCEPT ![c] = RemoveAt(@, i)]
  /\ UNCHANGED <<readyState, listening, authenticatedUserId, userId, closeCode,
                 clients, userChannels, wsUserMap, members, messages, reactions,
                 nframes>>
  /\ Delivered

\* ------------------------------------------------------------- hooked peers
\* the userId argument of the hook behind each connection (Home: user?.id)
HookUserId == [c \in Conns |-> IF Session[c] # NULL THEN Session[c]
                               ELSE IF c = "c2" THEN "B" ELSE "C"]

\* useWebSocket.ts lines 30-33: socket.onopen
HookOpen(c) ==
  /\ c \in hooked
  /\ readyState[c] = "OPEN"
  /\ ~isConnected[c]
  /\ isConnected' = [isConnected EXCEPT ![c] = TRUE]
  /\ outbox' = [outbox EXCEPT ![c] = Append(@, [type |-> "auth", userId |-> HookUserId[c]])]
  /\ sent' = <<>>
  /\ last' = Step("hook_open", c, HookUserId[c], NULL, 0)
  /\ UNCHANGED <<serverVars, hooked, onlineUsers, typingUsers, newMessage,
                 homeVars, lifeVars>>

\* a frame reaches the server before ws.on("message") is registered (routes
\* lines 545-547: the listener is added after await authenticateWebSocket):
\* the socket emits 'message' to no listener and the frame is gone
FrameUnheard(c) ==
  /\ readyState[c] = "OPEN"
  /\ ~listening[c]
  /\ c \in hooked => outbox[c] # <<>>
  /\ nframes < MaxFrames
  /\ nframes' = nframes + 1
  /\ sent' = <<>>
  /\ last' = Step("unheard", c, NULL, NULL, 0)
  /\ UNCHANGED <<readyState, listening, authenticatedUserId, userId, closeCode, tasks,
                 clients, userChannels, wsUserMap, members, messages, reactions>>
  /\ Delivered

\* the auth frame onopen wrote reaches the message handler
HookAuthFrame(c) ==
  /\ c \in hooked
  /\ outbox[c] # <<>>
  /\ Head(outbox[c]).type = "auth"
  /\ AuthFrame(c, Head(outbox[c]).userId)

\* useWebSocket.ts lines 109-121: sendMessage / startTyping / stopTyping; the
\* frame is written only to an open socket and arrives after the frames
\* written before it
HookTypingStart(c, channelId) ==
  /\ c \in hooked
  /\ isConnected[c]
  /\ outbox[c] = <<>>
  /\ TypingStartFrame(c, channelId)

HookTypingStop(c, channelId) ==
  /\ c \in hooked
  /\ isConnected[c]
  /\ outbox[c] = <<>>
  /\ TypingStopFrame(c, channelId)

TaskIx == 1..MaxInflight
Actions == {"add", "remove"}

\* the handlers of the connection lifecycle, for the connections of Cs and
\* auth frames that claim an id of Ids
ConnNext(Cs, Ids) ==
  \/ \E c \in Cs : Connect(c)
  \/ \E c \in Cs : SessionResolved(c)
  \/ \E c \in Cs, u \in Ids : AuthFrame(c, u)
  \/ \E c \in Cs, i \in TaskIx : AuthUserResolved(c, i)
  \/ \E c \in Cs, i \in TaskIx : AuthChannelsResolved(c, i)
  \/ \E c \in Cs : Close(c)

\* the handlers of the channel-targeted frames, for the connections of Cs and
\* frames that name a channel of Chs or a message of Ms
ChatNext(Cs, Chs, Ms) ==
  \/ \E c \in Cs, ch \in Chs : TypingStartFrame(c, ch)
  \/ \E c \in Cs, i \in TaskIx : TypingStartResolved(c, i)
  \/ \E c \in Cs, ch \in Chs : TypingStopFrame(c, ch)
  \/ \E c \in Cs, ch \in Chs : SendMessageFrame(c, ch)
  \/ \E c \in Cs, i \in TaskIx : SendMessageAuthorized(c, i)
  \/ \E c \in Cs, i \in TaskIx : SendMessageCreated(c, i)
  \/ \E c \in Cs, a \in Actions, m \in Ms : ReactionFrame(c, a, m)
  \/ \E c \in Cs, i \in TaskIx, a \in Actions : ReactionMessageResolved(c, i, a)
  \/ \E c \in Cs, i \in TaskIx, a \in Actions : ReactionStored(c, i, a)

HttpNext(Us) == \E u \in Us, ms \in SUBSET Us : CreateChannel(u, ms \ {u})

\* frames and storage calls that fail, for the connections of Cs
FaultNext(Cs) ==
  \/ \E c \in Cs : MalformedFrame(c)
  \/ \E c \in Cs : UnknownFrame(c)
  \/ \E c \in Cs, i \in TaskIx : StorageRejected(c, i)

Next == \/ ConnNext(Conns, ClaimIds)
        \/ ChatNext(Conns, AllChannels, MsgIds)
        \/ HttpNext(Users)
        \/ FaultNext(Conns)

\* the whole server
Spec == Init /\ [][Next]_vars

\* presence: two connections, their lifecycle and auth frames only (no other
\* handler writes clients, wsUserMap or userId, or sends a presence frame)
PresenceConns == {"c1", "c2"}
NextPresence == ConnNext(PresenceConns, Users)
SpecPresence == Init /\ [][NextPresence]_vars

\* channel traffic: two connections, their lifecycle and every frame type,
\* aimed at channel ch1 (members A and B, not C) and its message 1
ChatConns == {"c1", "c2"}
NextChat == ConnNext(ChatConns, Users) \/ ChatNext(ChatConns, {"ch1"}, {1})
SpecChat == Init /\ [][NextChat]_vars

\* authentication: two connections, auth frames that claim any id, the id
\* without a users row included
NextAuth == ConnNext(PresenceConns, ClaimIds)
SpecAuth == Init /\ [][NextAuth]_vars

\* failures: two connections, their lifecycle, the frames that write to
\* storage (aimed at ch1 and its message 1), frames that cannot be handled and
\* storage calls that reject
NextFault ==
  \/ ConnNext(ChatConns, Users)
  \/ \E c \in ChatConns : SendMessageFrame(c, "ch1")
  \/ \E c \in ChatConns, i \in TaskIx : SendMessageAuthorized(c, i)
  \/ \E c \in ChatConns, i \in TaskIx : SendMessageCreated(c, i)
  \/ \E c \in ChatConns, a \in Actions : ReactionFrame(c, a, 1)
  \/ \E c \in ChatConns, i \in TaskIx, a \in Actions : ReactionMessageResolved(c, i, a)
  \/ \E c \in ChatConns, i \in TaskIx, a \in Actions : ReactionStored(c, i, a)
  \/ FaultNext(ChatConns)
SpecFault == Init /\ [][NextFault]_vars

\* channel creation: two connections, their lifecycle and auth frames as A or
\* B, and POST /api/channels by A or B with the other as the optional member
NextHttp == ConnNext(PresenceConns, {"A", "B"}) \/ HttpNext({"A", "B"})
SpecHttp == Init /\ [][NextHttp]_vars

\* the state after c1 (session of A) and c2 (no session) have each completed
\* one auth, as A and as B: both are registered with their routing sets
ServerBound ==
  /\ readyState = [c \in Conns |-> IF c \in ChatConns THEN "OPEN" ELSE "NONE"]
  /\ listening = [c \in Conns |-> c \in ChatConns]
  /\ authenticatedUserId = [c \in Conns |-> IF c \in ChatConns THEN Session[c] ELSE NULL]
  /\ userId = [c \in Conns |-> IF c = "c1" THEN "A" ELSE IF c = "c2" THEN "B" ELSE NULL]
  /\ closeCode = [c \in Conns |-> 0]
  /\ tasks = [c \in Conns |-> <<>>]
  /\ clients = {<<"A", "c1">>, <<"B", "c2">>}
  /\ userChannels = {<<"A", GetUserChannels(InitMembers, "A")>>,
                     <<"B", GetUserChannels(InitMembers, "B")>>}
  /\ wsUserMap = {<<"c1", "A">>, <<"c2", "B">>}
  /\ members = InitMembers
  /\ messages = InitMessages
  /\ reactions = {}
  /\ nframes = 0
  /\ sent = <<>>
  /\ last = NoStep

InitBound == ServerBound /\ hooked = {} /\ BrowserInit

\* typing traffic between two bound connections, and their closes
NextTyping ==
  \/ \E c \in ChatConns, ch \in Channels : TypingStartFrame(c, ch)
  \/ \E c \in ChatConns, i \in TaskIx : TypingStartResolved(c, i)
  \/ \E c \in ChatConns, ch \in Channels : TypingStopFrame(c, ch)
  \/ \E c \in ChatConns : Close(c)
SpecTyping == InitBound /\ [][NextTyping]_vars

\* ------------------------------------------------------------- hooks on both ends
\* two browser tabs, each running the hook: one auth frame per socket, then
\* typing frames
InitView == ServerInit /\ hooked = ChatConns /\ BrowserInit
NextView ==
  \/ \E c \in ChatConns : Connect(c)
  \/ \E c \in ChatConns : SessionResolved(c)
  \/ \E c \in ChatConns : HookOpen(c)
  \/ \E c \in ChatConns : FrameUnheard(c)
  \/ \E c \in ChatConns : HookAuthFrame(c)
  \/ \E c \in ChatConns, i \in TaskIx : AuthUserResolved(c, i)
  \/ \E c \in ChatConns, i \in TaskIx : AuthChannelsResolved(c, i)
  \/ \E c \in ChatConns : HookTypingStart(c, "ch1")
  \/ \E c \in ChatConns, i \in TaskIx : TypingStartResolved(c, i)
  \/ \E c \in ChatConns : HookTypingStop(c, "ch1")
  \/ \E c \in ChatConns : Close(c)
SpecView == InitView /\ [][NextView]_vars

\* ------------------------------------------------------------- one browser tab
\* the frames a hook may receive: typing frames about other users, and
\* new_message frames
HookMessages == {[id |-> 1, channelId |-> "ch1"], [id |-> 2, channelId |-> "ch2"],
                 [id |-> 3, channelId |-> "ch1"]}
TypingFrames(c) ==
  {Frame(c, HookUserId[c], Event(t, u, ch, 0, {})) :
     t \in {"typing_start", "typing_stop"}, u \in {"B", "C"}, ch \in Channels}
MessageFrames(c) ==
  {Frame(c, HookUserId[c], Event("new_message", "B", m.channelId, m.id, {})) :
     m \in HookMessages}
Shown(id) == \E ch \in AllChannels : InList(queryData[ch], id)

\* useWebSocket.ts lines 35-85: socket.onmessage handles one frame
HookReceive(c, f) ==
  /\ c \in hooked
  /\ isConnected[c]
  /\ f.type = "new_message" => (~Shown(f.msg) /\ newMessage[c].id # f.msg)
  /\ LET h == OnMessage(HookState(c), f)
     IN /\ onlineUsers' = [onlineUsers EXCEPT ![c] = h.onlineUsers]
        /\ typingUsers' = [typingUsers EXCEPT ![c] = h.typingUsers]
        /\ newMessage' = [newMessage EXCEPT ![c] = h.newMessage]
  /\ sent' = <<>>
  /\ last' = Step("receive_" \o f.type, c, f.user, f.ch, f.msg)
  /\ UNCHANGED <<serverVars, hooked, isConnected, outbox, homeVars, lifeVars>>

\* Auth.tsx lines 281-294: Home's effect on [newMessage, activeChannelId],
\* and clearNewMessage (useWebSocket.ts lines 135-137)
NewMessageEffect(c) ==
  /\ c \in hooked
  /\ newMessage[c] # NoMessage
  /\ queryData' = (IF newMessage[c].channelId = activeChannelId
                   THEN [queryData EXCEPT ![activeChannelId] = Append(@, newMessage[c].id)]
                   ELSE queryData)
  /\ newMessage' = [newMessage EXCEPT ![c] = NoMessage]
  /\ sent' = <<>>
  /\ last' = Step("new_message_effect", c, NULL, newMessage[c].channelId, newMessage[c].id)
  /\ UNCHANGED <<serverVars, hooked, isConnected, outbox, onlineUsers, typingUsers,
                 activeChannelId, isTyping, typingTimeout, inputMounted, owed, lifeVars>>

\* Auth.tsx lines 428-429: onSelectChannel -> setActiveChannelId(id); ChatView
\* and its MessageInput are rendered once a channel is active (lines 539-552)
SelectChannel(channelId) ==
  /\ activeChannelId # channelId
  /\ activeChannelId' = channelId
  /\ inputMounted' = TRUE
  /\ sent' = <<>>
  /\ last' = Step("select_channel", NULL, NULL, channelId, 0)
  /\ UNCHANGED <<serverVars, hookVars, queryData, isTyping, typingTimeout, owed, lifeVars>>

\* the tab of user A: its socket c1 is open and bound, B is online too
InitTab ==
  /\ ServerBound
  /\ hooked = {"c1"}
  /\ isConnected = [c \in Conns |-> c = "c1"]
  /\ outbox = [c \in Conns |-> <<>>]
  /\ onlineUsers = [c \in Conns |-> IF c = "c1" THEN {"A", "B"} ELSE {}]
  /\ typingUsers = [c \in Conns |-> [ch \in AllChannels |-> <<>>]]
  /\ newMessage = [c \in Conns |-> NoMessage]
  /\ HomeInit
  /\ LifeInit

\* the hook and Home of that tab under any sequence of received frames
NextTab ==
  \/ \E f \in TypingFrames("c1") : HookReceive("c1", f)
  \/ \E f \in MessageFrames("c1") : HookReceive("c1", f)
  \/ NewMessageEffect("c1")
  \/ \E ch \in Channels : SelectChannel(ch)
SpecTab == InitTab /\ [][NextTab]_vars

\* ------------------------------------------------------------- MessageInput
TabConn == "c1"
\* useWebSocket.ts lines 109-121: a typing frame is written when the socket
\* is open; owed records the channels left with a typing_start unanswered
TypingSent(type, channelId) ==
  IF ~isConnected[TabConn] THEN owed
  ELSE IF type = "typing_start" THEN owed \cup {channelId} ELSE owed \ {channelId}

\* MessageInput.tsx lines 48-62: handleTyping, with Home's handleTypingStart
\* (Auth.tsx lines 364-368); the timer keeps the onTypingStop of this render,
\* which stops typing in the channel active now
Keystroke ==
  /\ inputMounted
  /\ isTyping' = TRUE
  /\ owed' = (IF isTyping THEN owed ELSE TypingSent("typing_start", activeChannelId))
  /\ typingTimeout' = activeChannelId
  /\ sent' = <<>>
  /\ last' = Step(IF isTyping THEN "keystroke" ELSE "hook_typing_start",
                  TabConn, HookUserId[TabConn], activeChannelId, 0)
  /\ UNCHANGED <<serverVars, hookVars, queryData, activeChannelId, inputMounted, lifeVars>>

\* MessageInput.tsx lines 58-61: the 2 s timer fires
TypingTimeoutFires ==
  /\ typingTimeout # NULL
  /\ isTyping' = FALSE
  /\ owed' = TypingSent("typing_stop", typingTimeout)
  /\ typingTimeout' = NULL
  /\ sent' = <<>>
  /\ last' = Step("hook_typing_stop", TabConn, HookUserId[TabConn], typingTimeout, 0)
  /\ UNCHANGED <<serverVars, hookVars, queryData, activeChannelId, inputMounted, lifeVars>>

\* MessageInput.tsx lines 72-81: handleSend, with Home's handleTypingStop
\* (Auth.tsx lines 370-374); the pending timer is not cleared
HandleSend ==
  /\ inputMounted
  /\ isTyping' = FALSE
  /\ owed' = TypingSent("typing_stop", activeChannelId)
  /\ sent' = <<>>
  /\ last' = Step("hook_send", TabConn, HookUserId[TabConn], activeChannelId, 0)
  /\ UNCHANGED <<serverVars, hookVars, queryData, activeChannelId, typingTimeout,
                 inputMounted, lifeVars>>

\* MessageInput.tsx lines 64-70: the component unmounts (Home or ChatView
\* goes away); its cleanup clears the timer and its state is discarded
UnmountInput ==
  /\ inputMounted
  /\ inputMounted' = FALSE
  /\ activeChannelId' = NULL
  /\ isTyping' = FALSE
  /\ typingTimeout' = NULL
  /\ sent' = <<>>
  /\ last' = Step("unmount_input", TabConn, HookUserId[TabConn], activeChannelId, 0)
  /\ UNCHANGED <<serverVars, hookVars, queryData, owed, lifeVars>>

\* the user of the tab types, sends, switches channel and leaves
NextInput ==
  \/ \E ch \in AllChannels : SelectChannel(ch)
  \/ Keystroke
  \/ TypingTimeoutFires
  \/ HandleSend
  \/ UnmountInput
SpecInput == InitTab /\ [][NextInput]_vars

\* ------------------------------------------------------------- the hook's sockets
HookUsers == {"A", "B"}
NoFrame == [type |-> NULL, userId |-> NULL]
SocketIx == 1..MaxSockets
\* useWebSocket.ts lines 23-28, 97: connect() creates a socket and stores it
\* in socketRef; byEffect marks the socket the effect's cleanup will close
NewSocket(user, byEffect) ==
  [user |-> user, state |-> "CONNECTING", first |-> NoFrame, effect |-> byEffect]
\* the socket captured by the cleanup of the effect that ran last
EffectSocket ==
  CHOOSE s \in 1..Len(sockets) :
    sockets[s].effect /\ \A t \in 1..Len(sockets) : sockets[t].effect => t <= s

\* useWebSocket.ts lines 99-107: the userId argument changes (sign-in, another
\* user, sign-out or unmount): the previous effect's cleanup runs socket.close()
\* on the socket its connect() created, then the effect runs connect() again,
\* which returns at once without a userId (line 24)
SetUserId(u) ==
  /\ u # hookUserId
  /\ u # NULL => Len(sockets) < MaxSockets
  /\ hookUserId' = u
  /\ LET closed == IF hookUserId # NULL
                      /\ sockets[EffectSocket].state \in {"CONNECTING", "OPEN"}
                   THEN [sockets EXCEPT ![EffectSocket].state = "CLOSING"]
                   ELSE sockets
     IN sockets' = IF u # NULL THEN Append(closed, NewSocket(u, TRUE)) ELSE closed
  /\ sent' = <<>>
  /\ last' = Step("set_user_id", NULL, u, NULL, 0)
  /\ UNCHANGED <<serverVars, hookVars, homeVars, timers>>

\* useWebSocket.ts lines 30-33: socket.onopen writes the auth frame
OnOpen(s) ==
  /\ s \in 1..Len(sockets)
  /\ sockets[s].state = "CONNECTING"
  /\ sockets' = [sockets EXCEPT ![s].state = "OPEN",
                                ![s].first = [type |-> "auth", userId |-> sockets[s].user]]
  /\ sent' = <<>>
  /\ last' = Step("on_open", NULL, sockets[s].user, NULL, s)
  /\ UNCHANGED <<serverVars, hookVars, homeVars, hookUserId, timers>>

\* useWebSocket.ts lines 87-95: the socket's close event (the server or the
\* network ended it, onerror called socket.close(), or close() of the cleanup
\* completed); onclose arms the 3 s reconnect timer
OnCloseNoReconnect(s) ==
  /\ s \in 1..Len(sockets)
  /\ sockets[s].state \in {"CONNECTING", "OPEN", "CLOSING"}
  /\ sockets' = [sockets EXCEPT ![s].state = "CLOSED"]
  /\ sent' = <<>>
  /\ last' = Step("on_close", NULL, sockets[s].user, NULL, s)
  /\ UNCHANGED <<serverVars, hookVars, homeVars, hookUserId, timers>>

OnClose(s) ==
  /\ s \in 1..Len(sockets)
  /\ sockets[s].state \in {"CONNECTING", "OPEN", "CLOSING"}
  /\ sockets' = [sockets EXCEPT ![s].state = "CLOSED"]
  /\ timers' = timers \cup {s}
  /\ sent' = <<>>
  /\ last' = Step("on_close", NULL, sockets[s].user, NULL, s)
  /\ UNCHANGED <<serverVars, hookVars, homeVars, hookUserId>>

\* useWebSocket.ts lines 89-91: setTimeout(() => connect(), 3000) fires; the
\* connect it calls is the one of the render that created socket s
ReconnectTimer(s) ==
  /\ s \in timers
  /\ Len(sockets) < MaxSockets
  /\ timers' = timers \ {s}
  /\ sockets' = Append(sockets, NewSocket(sockets[s].user, FALSE))
  /\ sent' = <<>>
  /\ last' = Step("reconnect", NULL, sockets[s].user, NULL, s)
  /\ UNCHANGED <<serverVars, hookVars, homeVars, hookUserId>>

\* useWebSocket.ts lines 109-113: sendMessage writes to socketRef.current,
\* the socket created last, when it is open
HookSends ==
  /\ sockets # <<>>
  /\ sockets[Len(sockets)].state = "OPEN"
  /\ sockets' = [sockets EXCEPT ![Len(sockets)].first =
                   IF @ = NoFrame THEN [type |-> "other", userId |-> NULL] ELSE @]
  /\ sent' = <<>>
  /\ last' = Step("hook_writes", NULL, sockets[Len(sockets)].user, NULL, Len(sockets))
  /\ UNCHANGED <<serverVars, hookVars, homeVars, hookUserId, timers>>

\* one mounted hook: its userId argument over time, its sockets and timers
NextLife ==
  \/ \E u \in HookUsers \cup {NULL} : SetUserId(u)
  \/ \E s \in SocketIx : OnOpen(s)
  \/ \E s \in SocketIx : OnClose(s)
  \/ \E s \in SocketIx : ReconnectTimer(s)
  \/ HookSends
SpecLife == Init /\ [][NextLife]_vars
\* a timer that was armed fires
SpecLifeFair == SpecLife /\ \A s \in SocketIx : WF_vars(ReconnectTimer(s))

\* ================================================================ claims
ChannelTypes == {"typing_start", "typing_stop", "new_message", "message_reaction"}
PresenceTypes == {"user_online", "user_offline"}
SentTo(c, types) == {k \in 1..Len(sent) : sent[k].to = c /\ sent[k].type \in types}
Registered(c) == \E p \in clients : p[2] = c

\* C1: the registry holds at most one entry per UserId, and right after a
\* connection has bound as U, also when another connection had bound as U
\* before, the lookup for U returns the connection that bound last.
C1_OneBindingPerIdentity ==
  /\ \A u \in ClaimIds : Cardinality({p \in clients : p[1] = u}) <= 1
  /\ last.op = "bind" => MapGet(clients, last.u) = last.c
C1_Witness ==
  /\ last.op = "bind"
  /\ \E c \in Conns \ {last.c} : MapGet(wsUserMap, c) = last.u
  /\ clients = {<<last.u, last.c>>}

C3_AuthorizationGate ==
  /\ \A c \in Conns : \A i \in 1..Len(tasks[c]) :
       (tasks[c][i].op = "send_message" /\ tasks[c][i].pc = "createMessage")
       => IsChannelMember(members, tasks[c][i].ch, tasks[c][i].u)
  /\ last.op \in {"create_message", "new_message"}
       => IsChannelMember(members, last.ch, last.u)
  /\ last.op = "send_message_denied" => sent = <<>>
C3_Witness ==
  /\ last.op = "send_message_denied"
  /\ ~IsChannelMember(members, last.ch, last.u)
  /\ MapGet(clients, last.u) = last.c
  /\ \E u \in MapKeys(clients) \ {last.u} :
       MapHas(userChannels, u) /\ last.ch \in MapGet(userChannels, u)
  /\ messages = InitMessages

\* C4 (as claimed): when the handler of a bind of U broadcasts, every other
\* connection that is registered for another user and open receives exactly
\* one user_online frame carrying U.
C4_OnlineExactlyOnce ==
  last.op = "auth_done" =>
    \A c \in Conns \ {last.c} :
      ((\E p \in clients : p[2] = c /\ p[1] # last.u) /\ readyState[c] = "OPEN")
      => Cardinality({k \in SentTo(c, {"user_online"}) : sent[k].user = last.u}) = 1

\* C5 (as claimed): when the close of a connection bound to U is handled, every
\* connection that remains registered and open receives exactly one
\* user_offline frame carrying U.
C5_OfflineExactlyOnce ==
  last.op = "close_bound" =>
    \A c \in Conns \ {last.c} :
      (Registered(c) /\ readyState[c] = "OPEN")
      => Cardinality({k \in SentTo(c, {"user_offline"}) : sent[k].user = last.u}) = 1

\* C6 (as claimed): no connection receives a user_online or user_offline frame
\* whose payload is the UserId the connection itself is bound to.
C6_NoOwnPresence ==
  \A k \in 1..Len(sent) :
    sent[k].type \in PresenceTypes => sent[k].user # userId[sent[k].to]

\* C7 (as claimed): a typing_start of U for channel C reaches every other
\* registered, open user whose routing set contains C, and never the
\* connection registered for U.
C7_TypingExclusion ==
  last.op = "typing_start" =>
    /\ \A u \in MapKeys(clients) \ {last.u} :
         (/\ readyState[MapGet(clients, u)] = "OPEN"
          /\ MapHas(userChannels, u)
          /\ last.ch \in MapGet(userChannels, u))
         => SentTo(MapGet(clients, u), {"typing_start"}) # {}
    /\ MapHas(clients, last.u)
         => SentTo(MapGet(clients, last.u), {"typing_start"}) = {}

\* C8 (as claimed): when the storage call of a send_message, add_reaction or
\* remove_reaction has succeeded, every member of the channel that is
\* registered with an open connection, the sender included, receives the
\* resulting frame exactly once.
C8_RoutingIncludesOriginator ==
  last.op \in {"new_message", "message_reaction_add", "message_reaction_remove"} =>
    \A u \in Users :
      (/\ IsChannelMember(members, last.ch, u)
       /\ MapHas(clients, u)
       /\ readyState[MapGet(clients, u)] = "OPEN")
      => Cardinality(SentTo(MapGet(clients, u),
           {IF last.op = "new_message" THEN "new_message" ELSE "message_reaction"})) = 1

\* C9: the close of a connection that never bound (no auth frame, or an auth
\* that was rejected) changes neither the registry nor the membership index
\* and sends no user_offline; a connection whose close was handled is the
\* origin of no later user_offline.
C9_IdempotentTeardown ==
  [][\A c \in Conns :
       /\ (readyState[c] # "CLOSED" /\ readyState'[c] = "CLOSED" /\ userId[c] = NULL)
          => /\ clients' = clients
             /\ userChannels' = userChannels
             /\ \A k \in 1..Len(sent') : sent'[k].type # "user_offline"
       /\ (readyState[c] = "CLOSED" /\ last'.c = c) => last'.op # "close_bound"]_vars
C9_Witness ==
  /\ last.op = "close_unbound"
  /\ closeCode[last.c] = 4001
  /\ userId[last.c] = NULL
  /\ \E p \in clients : readyState[p[2]] = "OPEN"

\* C10 (as claimed): a typing_start, typing_stop, add_reaction or
\* remove_reaction of a user who is not a member of the target channel in
\* storage persists nothing and broadcasts nothing.
C10_EveryFrameGated ==
  (/\ last.op \in {"typing_start", "typing_stop", "add_reaction_store",
                   "message_reaction_add", "message_reaction_remove"}
   /\ last.u # NULL
   /\ ~IsChannelMember(members, last.ch, last.u))
  => (sent = <<>> /\ last.op # "add_reaction_store")

\* C11 (as claimed): the frames of one connection are handled one at a time in
\* arrival order: when the typing_stop of a connection for a channel is
\* delivered, no typing_start frame that the same connection sent earlier for
\* that channel is still waiting to be delivered.
C11_PerConnectionOrdering ==
  (last.op = "typing_stop" /\ sent # <<>>) =>
    \A i \in 1..Len(tasks[last.c]) :
      ~(tasks[last.c][i].op = "typing_start" /\ tasks[last.c][i].ch = last.ch)

\* C12 (as claimed): no connection is registered under two different UserIds,
\* and a frame is processed as coming from U only on the connection the
\* registry holds for U (a displaced connection no longer acts as U).
C12_BoundOneToOne ==
  /\ \A c \in Conns : Cardinality({p \in clients : p[2] = c}) <= 1
  /\ (last.op \in {"typing_start_frame", "typing_stop", "send_message_frame",
                   "add_reaction_frame", "remove_reaction_frame"} /\ last.u # NULL)
       => MapGet(clients, last.u) = last.c

\* C13 (as claimed): once the close of a connection bound to U has been
\* handled (and the connection has not been bound again by a late handler), the
\* registry holds no entry mapping to that connection, and while U is not in
\* the registry the membership index holds no entry for U.
C13_CloseClearsBinding ==
  \A c \in Conns :
    (readyState[c] = "CLOSED" /\ userId[c] # NULL /\ ~MapHas(wsUserMap, c))
    => /\ ~Registered(c)
       /\ ~MapHas(clients, userId[c]) => ~MapHas(userChannels, userId[c])

\* C14: an auth frame whose claimed id differs from the session identity
\* closes the connection with 4001 and one whose claimed id has no users row
\* (no session) closes it with 4002; that step changes neither the registry
\* nor the membership index and sends nothing, and a connection is only ever
\* bound to its session identity or, without one, to an id that has a row.
C14_AuthFailure ==
  [][/\ last'.op = "auth_mismatch" =>
          /\ readyState'[last'.c] = "CLOSING" /\ closeCode'[last'.c] = 4001
          /\ clients' = clients /\ userChannels' = userChannels /\ sent' = <<>>
     /\ last'.op = "auth_notfound" =>
          /\ readyState[last'.c] = "OPEN" =>
               (readyState'[last'.c] = "CLOSING" /\ closeCode'[last'.c] = 4002)
          /\ clients' = clients /\ userChannels' = userChannels /\ sent' = <<>>
     /\ last'.op = "bind" =>
          IF authenticatedUserId[last'.c] # NULL
          THEN last'.u = authenticatedUserId[last'.c]
          ELSE last'.u \in Users]_vars
C14_Witness ==
  /\ last.op = "auth_notfound"
  /\ closeCode[last.c] = 4002
  /\ \E c \in Conns : closeCode[c] = 4001
  /\ clients # {}

\* C15 (as claimed): of each routed event every connection receives at most
\* one copy, and a routed frame goes only to a connection that is in the
\* registry and whose transport is OPEN at routing time.
C15_AtMostOnceDelivery ==
  /\ \A i, j \in 1..Len(sent) :
       (i # j /\ sent[i].type # "online_users" /\ sent[i].type = sent[j].type)
       => sent[i].to # sent[j].to
  /\ \A k \in 1..Len(sent) : sent[k].type # "online_users" =>
       (Registered(sent[k].to) /\ readyState[sent[k].to] = "OPEN")

\* C16: when a storage call of a send_message, add_reaction or remove_reaction
\* handler throws, that step sends no frame to anyone, the sender included,
\* and the suspended run of that frame ends there (no other run is touched), so
\* no event is broadcast for the frame later.
StorageThrewOps ==
  {"send_message_isChannelMember_threw", "send_message_createMessage_threw",
   "add_reaction_getMessage_threw", "add_reaction_store_threw",
   "remove_reaction_getMessage_threw", "remove_reaction_store_threw"}
C16_PersistenceFailure ==
  [][(last'.op \in StorageThrewOps /\ tasks' # tasks) =>
       /\ sent' = <<>>
       /\ Len(tasks'[last'.c]) = Len(tasks[last'.c]) - 1
       /\ \A c \in Conns \ {last'.c} : tasks'[c] = tasks[c]]_vars
C16_Witness ==
  /\ last.op = "send_message_createMessage_threw"
  /\ sent = <<>>
  /\ \E r \in messages : r.id = last.m
  /\ \E u \in MapKeys(clients) :
       /\ MapHas(userChannels, u) /\ last.ch \in MapGet(userChannels, u)
       /\ readyState[MapGet(clients, u)] = "OPEN"

\* C17 (as claimed): a malformed frame, a frame of unknown type or a frame
\* whose handling throws leaves the connection open and bound as it was,
\* leaves the registry and the membership index unchanged, and the connection
\* goes on receiving frames; in particular the handler that throws has not
\* written the registry before (it is not an auth handler past clients.set).
FaultOps ==
  {"malformed", "unknown_type"} \cup StorageThrewOps \cup
  {"auth_getUser_threw", "auth_getUserChannels_threw", "typing_start_getUser_threw"}
C17_FailureContainment ==
  [][(last'.op \in FaultOps /\ (nframes' # nframes \/ tasks' # tasks)) =>
       /\ readyState' = readyState /\ listening' = listening
       /\ userId' = userId /\ wsUserMap' = wsUserMap
       /\ clients' = clients /\ userChannels' = userChannels
       /\ last'.op # "auth_getUserChannels_threw"]_vars

C19_ReconnectRace ==
  [][\A c \in Conns :
       (/\ readyState[c] # "CLOSED" /\ readyState'[c] = "CLOSED"
        /\ ClosingUserId(c) # NULL
        /\ MapHas(clients, ClosingUserId(c))
        /\ MapGet(clients, ClosingUserId(c)) # c
        /\ readyState[MapGet(clients, ClosingUserId(c))] = "OPEN")
       => /\ MapGet(clients', ClosingUserId(c)) = MapGet(clients, ClosingUserId(c))
          /\ MapHas(userChannels, ClosingUserId(c)) = MapHas(userChannels', ClosingUserId(c))
          /\ \A k \in 1..Len(sent') :
               ~(sent'[k].type = "user_offline" /\ sent'[k].user = ClosingUserId(c))]_vars

\* C20 (as claimed): an auth that completes on an open connection sends that
\* connection exactly one online_users frame, as the first frame of the step
\* (before the user_online frames), whose payload is the set of registry keys
\* at that moment and contains the binding user.
C20_BindSnapshot ==
  (last.op = "auth_done" /\ readyState[last.c] = "OPEN") =>
    /\ Cardinality(SentTo(last.c, {"online_users"})) = 1
    /\ \A k \in 1..Len(sent) : sent[k].type = "online_users" => (k = 1 /\ sent[k].to = last.c)
    /\ sent[1].users = MapKeys(clients)
    /\ last.u \in sent[1].users

\* C25 - channel creation is not undone by a concurrent bind: while a member
\* of the channel POST /api/channels created is registered with an open
\* socket and has a routing set, that routing set contains the new channel
C25_CreationSurvivesBind ==
  \A u \in Users :
    (/\ <<NewChannel, u>> \in members
     /\ MapHas(clients, u) /\ readyState[MapGet(clients, u)] = "OPEN"
     /\ MapHas(userChannels, u))
    => NewChannel \in MapGet(userChannels, u)

\* no handler run is suspended at an await
Quiescent == \A c \in Conns : tasks[c] = <<>>

\* C26 - presence view convergence: whenever no handler is in flight (every
\* frame sent so far has been applied by its hook), the onlineUsers set of
\* the hook of each registered, open connection equals the registry's keys
C26_PresenceViewConverges ==
  Quiescent =>
    \A c \in hooked :
      (Registered(c) /\ readyState[c] = "OPEN") => onlineUsers[c] = MapKeys(clients)

\* every socket that carried user u has been closed and its close handled
Disconnected(u) == \A d \in Conns : userId[d] = u => readyState[d] = "CLOSED"

\* C21 - disconnect ends typing: once u has disconnected and no handler is in
\* flight (nothing more about u will be sent), no hook of an open connection
\* still lists u as typing in a channel
C21_DisconnectEndsTyping ==
  \A u \in Users :
    (Quiescent /\ Disconnected(u)) =>
      \A c \in hooked, ch \in AllChannels :
        readyState[c] = "OPEN" => ~InList(typingUsers[c][ch], u)

\* what a step is called when it handled an auth frame
AuthFrameOps == {"auth_mismatch", "bind", "auth_lookup"}
\* what a step is called when it handled another frame and acted on it
ActedOps == {"typing_start_frame", "typing_stop", "send_message_frame",
             "add_reaction_frame", "remove_reaction_frame"}
AuthInFlight(c) == \E i \in 1..Len(tasks[c]) : tasks[c][i].op = "auth"

C24_AuthNeverLost ==
  \A c \in hooked :
    (isConnected[c] /\ outbox[c] = <<>>) =>
      \/ AuthInFlight(c)
      \/ userId[c] # NULL
      \/ closeCode[c] \in {4001, 4002}

NoDuplicates(list) == \A i, j \in 1..Len(list) : list[i] = list[j] => i = j

\* C28 - no received message is dropped by the client: a message leaves the
\* hook's newMessage slot only when Home's effect consumes it, and the effect
\* appends it to the list of the active channel, once, when it is for that
\* channel; no list shows a message twice
C28_NoMessageDropped ==
  /\ [](\A ch \in AllChannels : NoDuplicates(queryData[ch]))
  /\ [][\A c \in hooked :
          (newMessage[c] # NoMessage /\ newMessage'[c] # newMessage[c]) =>
            /\ newMessage'[c] = NoMessage
            /\ newMessage[c].channelId = activeChannelId =>
                 queryData'[activeChannelId] =
                   Append(queryData[activeChannelId], newMessage[c].id)]_vars

\* C30 - client typing state is a set per channel: each list holds a user id
\* at most once; after a typing frame for (u, ch) is handled u is listed for
\* ch exactly when the frame was typing_start; no other (user, channel)
\* membership and no other channel's list changes
C30_TypingSetPerChannel ==
  /\ [](\A c \in hooked, ch \in AllChannels : NoDuplicates(typingUsers[c][ch]))
  /\ [][\A c \in hooked :
          (last'.c = c /\ last'.op \in {"receive_typing_start", "receive_typing_stop"}) =>
            /\ InList(typingUsers'[c][last'.ch], last'.u)
                 <=> last'.op = "receive_typing_start"
            /\ \A ch \in AllChannels, u \in Users :
                 (ch # last'.ch \/ u # last'.u) =>
                   (InList(typingUsers'[c][ch], u) <=> InList(typingUsers[c][ch], u))
            /\ \A ch \in AllChannels \ {last'.ch} :
                 typingUsers'[c][ch] = typingUsers[c][ch]]_vars

\* two users are listed for one channel in arrival order while a third
\* channel-user pair has been removed again by typing_stop
C30_Witness ==
  /\ typingUsers["c1"]["ch1"] = <<"C", "B">>
  /\ typingUsers["c1"]["ch2"] = <<>>
  /\ last.op = "receive_typing_stop" /\ last.ch = "ch2"

\* C22 - typing expiry on the sending client: for every channel left with a
\* typing_start unanswered, the timer that will send its typing_stop is
\* pending; and typing_start is sent only by a step that goes from not
\* typing to typing
C22_TypingExpiry ==
  /\ [](\A ch \in owed : typingTimeout = ch)
  /\ [][(last'.op = "hook_typing_start" /\ last' # last) => (~isTyping /\ isTyping')]_vars

\* C27 - automatic reconnection: whenever the socket the hook created last
\* has closed, the hook eventually creates another one; and the first frame
\* written to every socket that opened is auth carrying the userId the
\* socket was created for
C27_AutomaticReconnection ==
  /\ [](\A s \in 1..Len(sockets) :
          sockets[s].state = "OPEN" =>
            sockets[s].first = [type |-> "auth", userId |-> sockets[s].user])
  /\ \A n \in 1..(MaxSockets - 1) :
       (Len(sockets) = n /\ sockets[n].state = "CLOSED") ~> (Len(sockets) > n)

\* the first socket closed, the timer created a second one, it opened with
\* its auth frame and the hook wrote another frame after it
C27_Witness ==
  /\ Len(sockets) = 2
  /\ sockets[1].state = "CLOSED"
  /\ ~sockets[2].effect
  /\ sockets[2].state = "OPEN"
  /\ sockets[2].first = [type |-> "auth", userId |-> hookUserId]
  /\ last.op = "hook_writes"

\* C29 - cleanup stops the client: a socket is created only for the userId
\* the hook has at that moment, every socket that is open or being opened
\* belongs to that userId, and there is at most one such socket
C29_CleanupStops ==
  /\ [](\A s, t \in 1..Len(sockets) :
          sockets[s].state \in {"CONNECTING", "OPEN"} =>
            /\ sockets[s].user = hookUserId
            /\ sockets[t].state \in {"CONNECTING", "OPEN"} => s = t)
  /\ [][Len(sockets') > Len(sockets) =>
          sockets'[Len(sockets')].user = hookUserId']_vars

====
